---------------------------- MODULE Spec2Model ----------------------------
(***************************************************************************)
(* Model of the two pixel algorithms of pyxelart:                          *)
(*   - extract_frames_from_gif (src/video_extract_frames.py): the frame    *)
(*     loop that composes every GIF frame over a persistent base canvas;   *)
(*   - detect_transparent_regions / calculate_dimensions / slice_sprite    *)
(*     (src/image_cutter.py): the sprite-sheet scanner and cutter.         *)
(* Images are functions from cells <<x, y>> to pixels; an RGBA pixel is    *)
(* the tuple <<r, g, b, a>> of 8-bit channels.                             *)
(***************************************************************************)
EXTENDS Integers, Sequences, FiniteSets, TLC

VARIABLES
    \* ---- extract_frames_from_gif ----
    pc,              \* "loop" while the frame loop runs, "done" after the return
    n_frames,        \* gif.n_frames
    preserve_alpha,  \* the preserve_alpha argument
    i,               \* the loop index: frames processed so far
    base_canvas,     \* the persistent canvas (NoCanvas stands for None)
    gif_frames,      \* the source frames read by gif.seek(0..i-1), in order
    entry_canvas,    \* per frame: base_canvas when its iteration started
    drawn_on,        \* per frame: current_frame right after base_canvas.copy()
    frames_out,      \* per frame: frame_to_save, the composited frame
    saved,           \* per frame: the image handed to save()
    frame_paths,     \* per frame: the number in its file name frame_<number>
    returned,        \* the return value (0 until the return)
    \* ---- image_cutter ----
    cpc,             \* "idle", "start", "detected", "sliced"
    img,             \* the sprite sheet
    args,            \* the arguments of the call made
    regions,         \* result of detect_transparent_regions
    frames,          \* result of slice_sprite
    raised,          \* the exception the call raised ("" when none)
    warned,          \* TRUE when slice_sprite printed its warning
    scanned,         \* TRUE when slice_sprite scanned the sheet for regions
    boxes,           \* the crop boxes slice_sprite passed to img.crop, in order
    \* ---- image_cutter main(): a directory run ----
    batch_pc,        \* "idle", "parse", "run", "done", "usage", "crashed"
    batch_args,      \* the parsed command line
    directory,       \* the files of the input directory, in iterdir() order
    next_file,       \* position of main's loop in the directory (from 1)
    report,          \* per processed file: what process_image did
    \* ---- several extract_frames_from_gif calls in progress ----
    sessions,        \* per call: preserve_alpha, n_frames, i, the frames seen and emitted
    canvases,        \* per call: its base_canvas
    \* ---- extract_frames_from_gif with its images as objects ----
    heap,            \* the image objects created so far: object number -> pixels
    refs             \* the call's locals: n_frames, preserve_alpha, i, base_canvas
                     \* (an object number or None), the frames seen, the objects emitted

gifvars == <<pc, n_frames, preserve_alpha, i, base_canvas, gif_frames,
             entry_canvas, drawn_on, frames_out, saved, frame_paths, returned>>
cutvars == <<cpc, img, args, regions, frames, raised, warned, scanned, boxes>>
batchvars == <<batch_pc, batch_args, directory, next_file, report>>
sessvars == <<sessions, canvases>>
heapvars == <<heap, refs>>
vars == <<gifvars, cutvars, batchvars, sessvars, heapvars>>

(***************************************************************************)
(* Bounds of the model.                                                    *)
(***************************************************************************)
CanvasW == 4
CanvasH == 4
MaxFrames == 3

(***************************************************************************)
(* Pixels.                                                                 *)
(***************************************************************************)
Transparent == <<0, 0, 0, 0>>
Red == <<255, 0, 0, 255>>
Blue == <<0, 0, 255, 255>>
SemiGreen == <<0, 255, 0, 128>>

Alpha(p) == p[4]

\* Pillow's DIV255 / BLEND macros, used by paste() with an RGBA mask.
Div255(a) == LET t == a + 128 IN ((t \div 256) + t) \div 256

Blend(m, in1, in2) == Div255(in1 * (255 - m) + in2 * m)

BlendPixel(m, dst, src) == [k \in 1..4 |-> Blend(m, dst[k], src[k])]

(***************************************************************************)
(* Canvases and images.  An image is [w, h, px] with px a function on      *)
(* (0..w-1) \X (0..h-1).  A canvas is the px of a CanvasW x CanvasH image. *)
(***************************************************************************)
Cells(w, h) == (0..(w - 1)) \X (0..(h - 1))

CanvasCells == Cells(CanvasW, CanvasH)

NoCanvas == <<>>

\* Image.new('RGBA', (width, height), (0, 0, 0, 0))
NewCanvas == [c \in CanvasCells |-> Transparent]

SolidImage(w, h, p) == [w |-> w, h |-> h, px |-> [c \in Cells(w, h) |-> p]]

\* A 2x2 delta holding a transparent, a semi-transparent and two opaque samples.
MixedImage ==
    [w |-> 2, h |-> 2,
     px |-> [c \in Cells(2, 2) |->
               IF c = <<0, 0>> THEN Transparent
               ELSE IF c = <<1, 0>> THEN SemiGreen
               ELSE IF c = <<0, 1>> THEN Blue ELSE Transparent]]

\* im.paste(frame, position, mask): the frame replaces the canvas inside its
\* box (clipped to the canvas); with a mask each channel is blended by the
\* mask's alpha.  The mask passed by the code is the frame itself.
Paste(canvas, frame, position, masked) ==
    [c \in CanvasCells |->
        LET s == <<c[1] - position[1], c[2] - position[2]>> IN
        IF s \in Cells(frame.w, frame.h)
        THEN IF masked
             THEN BlendPixel(Alpha(frame.px[s]), canvas[c], frame.px[s])
             ELSE frame.px[s]
        ELSE canvas[c]]

\* frame_to_save.convert('RGB'): the alpha channel is dropped.
ConvertRGB(canvas) == [c \in DOMAIN canvas |-> <<canvas[c][1], canvas[c][2], canvas[c][3]>>]

(***************************************************************************)
(* The source frames: what gif.seek(i) exposes -- the frame's pixels, its  *)
(* tile box (left, top, right, bottom) and its disposal method.            *)
(***************************************************************************)
DisposalMethods == 0..3

GifImages ==
    { [image |-> SolidImage(CanvasW, CanvasH, Red), tile |-> <<0, 0, CanvasW, CanvasH>>],
      [image |-> SolidImage(2, 2, Blue), tile |-> <<1, 1, 3, 3>>],
      [image |-> MixedImage, tile |-> <<0, 1, 2, 3>>] }

\* The values of the 3-bit disposal field that the format leaves undefined.
UnrecognizedDisposalMethods == {4, 7}

\* A delta whose box leaves the canvas at the right and at the bottom.
OverhangingImage ==
    [image |-> SolidImage(2, 2, Blue),
     tile |-> <<CanvasW - 1, CanvasH - 1, CanvasW + 1, CanvasH + 1>>]

GifFrames ==
    { [image |-> g.image, tile |-> g.tile, disposal_method |-> d] :
        g \in GifImages, d \in DisposalMethods }
    \cup { [image |-> OverhangingImage.image, tile |-> OverhangingImage.tile,
            disposal_method |-> 1] }
    \cup { [image |-> MixedImage, tile |-> <<0, 1, 2, 3>>, disposal_method |-> d] :
            d \in UnrecognizedDisposalMethods }

\* position = (left, top) of gif.tile[0][1]
FramePosition(fr) == <<fr.tile[1], fr.tile[2]>>

\* A faulty variant of NeedsNewCanvas: no new canvas for the first frame.
NeedsNewCanvasOnBackground(idx, disposal_method) == disposal_method = 2

\* A faulty variant of NeedsNewCanvas: a new canvas for the first frame only.
NeedsNewCanvasFirstOnly(idx, disposal_method) == idx = 0

\* if i == 0 or disposal_method == 2: a new transparent canvas
NeedsNewCanvas(idx, disposal_method) == idx = 0 \/ disposal_method = 2

\* Faulty variants of KeepsFrame: the composited frame is never kept / is kept also
\* for disposal method 2.
KeepsFrameNever(disposal_method) == FALSE

KeepsFrameAlsoBackground(disposal_method) == disposal_method \in {1, 2}

\* if disposal_method == 1: base_canvas = current_frame.copy()
KeepsFrame(disposal_method) == disposal_method = 1

\* The body of the loop for frame idx: from the canvas the iteration finds it
\* gives the canvas it draws on, the canvas it leaves and the frame it emits.
ComposeFrame(base, idx, fr, alpha) ==
    LET disposal_method == fr.disposal_method
        canvas == IF NeedsNewCanvas(idx, disposal_method) THEN NewCanvas ELSE base
        position == FramePosition(fr)
        copied == canvas
        current_frame == Paste(copied, fr.image, position, alpha)
    IN  [copied |-> copied,
         base_canvas |-> IF canvas # NoCanvas /\ KeepsFrame(disposal_method)
                         THEN current_frame ELSE canvas,
         frame_to_save |-> IF canvas # NoCanvas THEN current_frame ELSE fr.image.px]

\* The image handed to save(): RGBA when preserve_alpha, else converted to RGB.
SavedImage(frame_to_save, alpha) ==
    IF alpha THEN [mode |-> "RGBA", px |-> frame_to_save]
    ELSE [mode |-> "RGB", px |-> ConvertRGB(frame_to_save)]

(***************************************************************************)
(* image_cutter.py.  A sheet is [mode, width, height, px]; mode "RGBA"     *)
(* pixels are <<r, g, b, a>>, mode "RGB" pixels are <<r, g, b>>.  Python's *)
(* None (an omitted width, height, slices or resize) is the value None.    *)
(***************************************************************************)
None == -1

\* The faintest non-transparent sample: alpha = 1.
Faint == <<255, 0, 0, 1>>

Black == <<0, 0, 0>>

MaxImgW == 3
MaxSlices == 3

SheetHeights == {1, 2}

Paddings == {0, 1}

SheetPixels == {Transparent, Faint}

RGBASheets ==
    UNION { { [mode |-> "RGBA", width |-> w, height |-> h, px |-> f] :
                f \in [Cells(w, h) -> SheetPixels] } :
            w \in 1..MaxImgW, h \in SheetHeights }

\* One sheet without alpha channel per size.
RGBSheets ==
    { [mode |-> "RGB", width |-> w, height |-> h,
       px |-> [c \in Cells(w, h) |-> IF (c[1] + c[2]) % 2 = 0 THEN Black
                                     ELSE <<255, 0, 0>>]] :
      w \in 1..MaxImgW, h \in SheetHeights }

Sheets == RGBASheets \cup RGBSheets

\* img.convert('RGBA'): a sheet without alpha becomes fully opaque.
ConvertRGBA(im) ==
    IF im.mode = "RGBA" THEN im
    ELSE [im EXCEPT !.mode = "RGBA",
                    !.px = [c \in DOMAIN im.px |->
                              <<im.px[c][1], im.px[c][2], im.px[c][3], 255>>]]

\* Faulty variants of IsVisible: only half-opaque samples count / every sample counts.
IsVisibleFromHalf(a) == a >= 128

IsVisibleAlways(a) == a >= 0

\* alpha > 0
IsVisible(a) == a > 0

\* np.any(alpha[:, x] > 0)
ColumnHasPixel(im, x) == \E y \in 0..(im.height - 1) : IsVisible(im.px[<<x, y>>][4])

\* np.any(alpha[y, :] > 0)
RowHasPixel(im, y) == \E x \in 0..(im.width - 1) : IsVisible(im.px[<<x, y>>][4])

\* The two scan loops: the indices 0..n-1, in order, whose line holds a
\* visible sample.
RECURSIVE ScanLines(_, _, _, _)
ScanLines(im, direction, k, n) ==
    IF k >= n THEN <<>>
    ELSE LET hit == IF direction = "h" THEN ColumnHasPixel(im, k)
                    ELSE RowHasPixel(im, k)
         IN  (IF hit THEN <<k>> ELSE <<>>) \o ScanLines(im, direction, k + 1, n)

NonTransparentCols(im, direction) ==
    ScanLines(im, direction, 0, IF direction = "h" THEN im.width ELSE im.height)

\* A faulty variant of IsGap: one missing line does not split.
IsGapWide(col, prev) == col > prev + 2

\* A faulty variant of IsGap: every step to the next line splits.
IsGapEvery(col, prev) == col > prev

\* if col > prev + 1
IsGap(col, prev) == col > prev + 1

\* A faulty variant of ClosedRegion: the region is closed at the line after the gap.
ClosedRegionAtCol(start, prev, col) == <<start, col>>

\* regions.append((start, prev)) when a gap is found before col
ClosedRegion(start, prev, col) == <<start, prev>>

\* for col in non_transparent_cols[1:], then "Add the last region".
RECURSIVE GroupLoop(_, _, _, _)
GroupLoop(rest, start, prev, acc) ==
    IF rest = <<>> THEN Append(acc, <<start, prev>>)
    ELSE LET col == Head(rest)
         IN  IF IsGap(col, prev)
             THEN GroupLoop(Tail(rest), col, col,
                            Append(acc, ClosedRegion(start, prev, col)))
             ELSE GroupLoop(Tail(rest), start, col, acc)

GroupRegions(cols) ==
    IF cols = <<>> THEN <<>>
    ELSE GroupLoop(Tail(cols), cols[1], cols[1], <<>>)

detect_transparent_regions(im, direction) ==
    GroupRegions(NonTransparentCols(ConvertRGBA(im), direction))

\* A faulty variant of calculate_dimensions: the axes are not exchanged for a
\* vertical cut.
calculate_dimensions_unrotated(im, width, height, slices, direction) ==
    LET img_width == im.width
        img_height == im.height
    IN  IF width # None
        THEN [raised |-> "", frame_width |-> width,
              frame_height |-> IF height # None THEN height ELSE img_height]
        ELSE IF slices # None
        THEN IF slices = 0
             THEN [raised |-> "ZeroDivisionError", frame_width |-> 0, frame_height |-> 0]
             ELSE [raised |-> "", frame_width |-> img_width \div slices,
                   frame_height |-> img_height]
        ELSE [raised |-> "ValueError", frame_width |-> 0, frame_height |-> 0]

\* A faulty variant of calculate_dimensions: with neither width nor slices the
\* whole sheet is taken as the one frame.
calculate_dimensions_whole(im, width, height, slices, direction) ==
    LET img_width == IF direction = "h" THEN im.width ELSE im.height
        img_height == IF direction = "h" THEN im.height ELSE im.width
    IN  IF width # None
        THEN [raised |-> "", frame_width |-> width,
              frame_height |-> IF height # None THEN height ELSE img_height]
        ELSE IF slices # None /\ slices # 0
        THEN [raised |-> "", frame_width |-> img_width \div slices,
              frame_height |-> img_height]
        ELSE [raised |-> "", frame_width |-> img_width, frame_height |-> img_height]

\* calculate_dimensions: the frame size along and across the slicing axis,
\* or the exception raised.
calculate_dimensions(im, width, height, slices, direction) ==
    LET img_width == IF direction = "h" THEN im.width ELSE im.height
        img_height == IF direction = "h" THEN im.height ELSE im.width
    IN  IF width # None
        THEN [raised |-> "", frame_width |-> width,
              frame_height |-> IF height # None THEN height ELSE img_height]
        ELSE IF slices # None
        THEN IF slices = 0
             THEN [raised |-> "ZeroDivisionError", frame_width |-> 0, frame_height |-> 0]
             ELSE [raised |-> "", frame_width |-> img_width \div slices,
                   frame_height |-> img_height]
        ELSE [raised |-> "ValueError", frame_width |-> 0, frame_height |-> 0]

ZeroPixel(mode) == IF mode = "RGBA" THEN Transparent ELSE Black

\* img.crop((left, upper, right, lower)): the result is right-left wide and
\* lower-upper high; cells outside the sheet are zero.
Crop(im, box) ==
    [mode |-> im.mode, width |-> box[3] - box[1], height |-> box[4] - box[2],
     px |-> [c \in Cells(box[3] - box[1], box[4] - box[2]) |->
               LET s == <<c[1] + box[1], c[2] + box[2]>> IN
               IF s \in Cells(im.width, im.height) THEN im.px[s]
               ELSE ZeroPixel(im.mode)]]

\* A faulty variant of AddPadding: the frame is pasted at the origin.
AddPaddingAtOrigin(frame, padding) ==
    LET rgba == ConvertRGBA(frame) IN
    [mode |-> "RGBA", width |-> frame.width + 2 * padding,
     height |-> frame.height + 2 * padding,
     px |-> [c \in Cells(frame.width + 2 * padding, frame.height + 2 * padding) |->
               IF c \in Cells(frame.width, frame.height) THEN rgba.px[c]
               ELSE Transparent]]

\* Image.new('RGBA', (w + 2p, h + 2p), (0,0,0,0)) and paste(frame, (p, p)).
AddPadding(frame, padding) ==
    LET rgba == ConvertRGBA(frame) IN
    [mode |-> "RGBA", width |-> frame.width + 2 * padding,
     height |-> frame.height + 2 * padding,
     px |-> [c \in Cells(frame.width + 2 * padding, frame.height + 2 * padding) |->
               LET s == <<c[1] - padding, c[2] - padding>> IN
               IF s \in Cells(frame.width, frame.height) THEN rgba.px[s]
               ELSE Transparent]]

\* A sample computed by the LANCZOS filter; its value is not modelled.
Resampled == <<-1, -1, -1, -1>>

\* frame.resize(size, Image.LANCZOS): the result has exactly the size asked
\* for; a resize to the frame's own size is a copy.
Resize(frame, size) ==
    IF <<frame.width, frame.height>> = size THEN frame
    ELSE [mode |-> frame.mode, width |-> size[1], height |-> size[2],
          px |-> [c \in Cells(size[1], size[2]) |-> Resampled]]

\* A faulty variant of FinishFrame: the frame is resized before it is padded.
FinishFrameResizeFirst(frame, padding, resize) ==
    LET resized == IF resize # <<>> THEN Resize(frame, resize) ELSE frame
    IN  IF padding > 0 THEN AddPadding(resized, padding) ELSE resized

\* "Apply padding if specified", "Resize if specified".
FinishFrame(frame, padding, resize) ==
    LET padded == IF padding > 0 THEN AddPadding(frame, padding) ELSE frame
    IN  IF resize # <<>> THEN Resize(padded, resize) ELSE padded

\* A faulty variant of CropRegion: the region's last line is left out.
CropRegionExclusive(im, region, direction) ==
    IF direction = "h"
    THEN Crop(im, <<region[1], 0, region[2], im.height>>)
    ELSE Crop(im, <<0, region[1], im.width, region[2]>>)

\* The crop of one detected region.
CropRegion(im, region, direction) ==
    IF direction = "h"
    THEN Crop(im, <<region[1], 0, region[2] + 1, im.height>>)
    ELSE Crop(im, <<0, region[1], im.width, region[2] + 1>>)

\* The box CropRegion passes to img.crop.
RegionBox(im, region, direction) ==
    IF direction = "h"
    THEN <<region[1], 0, region[2] + 1, im.height>>
    ELSE <<0, region[1], im.width, region[2] + 1>>

\* A faulty variant of TileBox: the tile's end is not advanced by the frame width.
TileBoxShort(im, direction, start, frame_width, frame_height) ==
    IF direction = "h"
    THEN <<start, 0, IF start + 1 < im.width THEN start + 1 ELSE im.width, frame_height>>
    ELSE <<0, start, frame_height, IF start + 1 < im.height THEN start + 1 ELSE im.height>>

\* A faulty variant of TileBox: the tile's end is not limited to the sheet.
TileBoxUnclipped(im, direction, start, frame_width, frame_height) ==
    IF direction = "h"
    THEN <<start, 0, start + frame_width, frame_height>>
    ELSE <<0, start, frame_height, start + frame_width>>

\* end = min(start + frame_width, length); the crop box of one fixed tile.
TileBox(im, direction, start, frame_width, frame_height) ==
    IF direction = "h"
    THEN <<start, 0,
           IF start + frame_width < im.width THEN start + frame_width ELSE im.width,
           frame_height>>
    ELSE <<0, start, frame_height,
           IF start + frame_width < im.height THEN start + frame_width
           ELSE im.height>>

\* for i in range(count): ... if start >= length: break ...
RECURSIVE FixedLoop(_, _, _, _, _, _, _)
FixedLoop(im, a, frame_width, frame_height, idx, count, acc) ==
    LET start == idx * frame_width
        length == IF a.direction = "h" THEN im.width ELSE im.height
    IN  IF idx >= count \/ start >= length THEN acc
        ELSE FixedLoop(im, a, frame_width, frame_height, idx + 1, count,
                 Append(acc,
                     FinishFrame(Crop(im, TileBox(im, a.direction, start,
                                                  frame_width, frame_height)),
                                 a.padding, a.resize)))

\* The boxes FixedLoop passes to img.crop, in order.
RECURSIVE FixedBoxes(_, _, _, _, _, _, _)
FixedBoxes(im, a, frame_width, frame_height, idx, count, acc) ==
    LET start == idx * frame_width
        length == IF a.direction = "h" THEN im.width ELSE im.height
    IN  IF idx >= count \/ start >= length THEN acc
        ELSE FixedBoxes(im, a, frame_width, frame_height, idx + 1, count,
                 Append(acc, TileBox(im, a.direction, start, frame_width,
                                     frame_height)))

\* slices or (length // frame_width)
Truthy(n) == n # None /\ n # 0

\* A faulty variant of LoopCount: a last, partial tile is counted too.
LoopCountCeil(slices, length, frame_width) ==
    IF Truthy(slices) THEN slices
    ELSE (length + frame_width - 1) \div frame_width

\* range(slices or (img.width // frame_width)): the number of iterations.
LoopCount(slices, length, frame_width) ==
    IF Truthy(slices) THEN slices ELSE length \div frame_width

slice_sprite(im, a) ==
    LET dims == calculate_dimensions(im, a.width, a.height, a.slices, a.direction)
        length == IF a.direction = "h" THEN im.width ELSE im.height
    IN  IF dims.raised # ""
        THEN [raised |-> dims.raised, frames |-> <<>>, warned |-> FALSE,
              scanned |-> FALSE, boxes |-> <<>>]
        ELSE IF a.auto_detect
        THEN LET regs == detect_transparent_regions(im, a.direction) IN
             [raised |-> "",
              frames |-> [k \in 1..Len(regs) |->
                            FinishFrame(CropRegion(im, regs[k], a.direction),
                                        a.padding, a.resize)],
              warned |-> regs = <<>>,
              scanned |-> TRUE,
              boxes |-> [k \in 1..Len(regs) |-> RegionBox(im, regs[k], a.direction)]]
        ELSE IF ~Truthy(a.slices) /\ dims.frame_width = 0
        THEN [raised |-> "ZeroDivisionError", frames |-> <<>>, warned |-> FALSE,
              scanned |-> FALSE, boxes |-> <<>>]
        ELSE [raised |-> "",
              frames |-> FixedLoop(im, a, dims.frame_width, dims.frame_height, 0,
                                   LoopCount(a.slices, length, dims.frame_width),
                                   <<>>),
              warned |-> FALSE,
              scanned |-> FALSE,
              boxes |-> FixedBoxes(im, a, dims.frame_width, dims.frame_height, 0,
                                   LoopCount(a.slices, length, dims.frame_width),
                                   <<>>)]

ResizeTargets == {<<2, 1>>}

SliceArgs ==
    [width : {None} \cup (0..MaxImgW), height : {None} \cup SheetHeights,
     slices : {None} \cup (0..MaxSlices), direction : {"h", "v"},
     auto_detect : BOOLEAN, padding : Paddings,
     resize : {<<>>} \cup ResizeTargets]

GifInit ==
    /\ pc = "loop"
    /\ n_frames \in 1..MaxFrames
    /\ preserve_alpha \in BOOLEAN
    /\ i = 0
    /\ base_canvas = NoCanvas
    /\ gif_frames = <<>>
    /\ entry_canvas = <<>>
    /\ drawn_on = <<>>
    /\ frames_out = <<>>
    /\ saved = <<>>
    /\ frame_paths = <<>>
    /\ returned = 0

CutIdle ==
    /\ cpc = "idle"
    /\ img = <<>>
    /\ args = <<>>
    /\ regions = <<>>
    /\ frames = <<>>
    /\ raised = ""
    /\ warned = FALSE
    /\ scanned = FALSE
    /\ boxes = <<>>

HeapIdle ==
    /\ heap = <<>>
    /\ refs = <<>>

SessionsIdle ==
    /\ sessions = <<>>
    /\ canvases = <<>>

BatchIdle ==
    /\ batch_pc = "idle"
    /\ batch_args = <<>>
    /\ directory = <<>>
    /\ next_file = 1
    /\ report = <<>>

\* One iteration of "for i in range(n_frames)".
ExtractFrame ==
    /\ pc = "loop"
    /\ i < n_frames
    /\ \E fr \in GifFrames :
        LET step == ComposeFrame(base_canvas, i, fr, preserve_alpha)
        IN  /\ gif_frames' = Append(gif_frames, fr)
            /\ entry_canvas' = Append(entry_canvas, base_canvas)
            /\ drawn_on' = Append(drawn_on, step.copied)
            /\ base_canvas' = step.base_canvas
            /\ frames_out' = Append(frames_out, step.frame_to_save)
            /\ saved' = Append(saved, SavedImage(step.frame_to_save, preserve_alpha))
            /\ frame_paths' = Append(frame_paths, i)
    /\ i' = i + 1
    /\ UNCHANGED <<pc, n_frames, preserve_alpha, returned>>
    /\ UNCHANGED cutvars
    /\ UNCHANGED batchvars
    /\ UNCHANGED sessvars
    /\ UNCHANGED heapvars

\* The loop is exhausted: return n_frames.
Return ==
    /\ pc = "loop"
    /\ i = n_frames
    /\ pc' = "done"
    /\ returned' = n_frames
    /\ UNCHANGED <<n_frames, preserve_alpha, i, base_canvas, gif_frames,
                   entry_canvas, drawn_on, frames_out, saved, frame_paths>>
    /\ UNCHANGED cutvars
    /\ UNCHANGED batchvars
    /\ UNCHANGED sessvars
    /\ UNCHANGED heapvars

Init == GifInit /\ CutIdle /\ BatchIdle /\ SessionsIdle /\ HeapIdle

Next == ExtractFrame \/ Return

Spec == Init /\ [][Next]_vars

(***************************************************************************)
(* The cutter's calls, each made on a sheet chosen at the start.           *)
(***************************************************************************)
GifIdle ==
    /\ pc = "idle"
    /\ n_frames = 0
    /\ preserve_alpha = TRUE
    /\ i = 0
    /\ base_canvas = NoCanvas
    /\ gif_frames = <<>>
    /\ entry_canvas = <<>>
    /\ drawn_on = <<>>
    /\ frames_out = <<>>
    /\ saved = <<>>
    /\ frame_paths = <<>>
    /\ returned = 0

CutInit ==
    /\ cpc = "start"
    /\ img \in Sheets
    /\ args = <<>>
    /\ regions = <<>>
    /\ frames = <<>>
    /\ raised = ""
    /\ warned = FALSE
    /\ scanned = FALSE
    /\ boxes = <<>>

\* A call detect_transparent_regions(img, direction).
DetectRegions ==
    /\ cpc = "start"
    /\ \E direction \in {"h", "v"} :
        /\ args' = [direction |-> direction]
        /\ regions' = detect_transparent_regions(img, direction)
    /\ cpc' = "detected"
    /\ UNCHANGED <<img, frames, raised, warned, scanned, boxes>>
    /\ UNCHANGED gifvars
    /\ UNCHANGED batchvars
    /\ UNCHANGED sessvars
    /\ UNCHANGED heapvars

\* A call slice_sprite(img, width, height, slices, direction, auto_detect,
\* padding, resize).
SliceSprite ==
    /\ cpc = "start"
    /\ \E a \in SliceArgs :
        LET r == slice_sprite(img, a) IN
        /\ args' = a
        /\ frames' = r.frames
        /\ raised' = r.raised
        /\ warned' = r.warned
        /\ scanned' = r.scanned
        /\ boxes' = r.boxes
    /\ cpc' = "sliced"
    /\ UNCHANGED <<img, regions>>
    /\ UNCHANGED gifvars
    /\ UNCHANGED batchvars
    /\ UNCHANGED sessvars
    /\ UNCHANGED heapvars

InitCut == GifIdle /\ CutInit /\ BatchIdle /\ SessionsIdle /\ HeapIdle

CutNext == DetectRegions \/ SliceSprite

SpecCut == InitCut /\ [][CutNext]_vars

(***************************************************************************)
(* Several calls of extract_frames_from_gif in progress at once, their     *)
(* loop iterations interleaved in any order.                               *)
(***************************************************************************)
MaxSessionFrames == 2

Sessions == {1, 2}

\* The frames the animations of these calls are made of.
SessionFrames ==
    { [image |-> SolidImage(CanvasW, CanvasH, Red), tile |-> <<0, 0, CanvasW, CanvasH>>,
       disposal_method |-> 1],
      [image |-> SolidImage(2, 2, Blue), tile |-> <<1, 1, 3, 3>>, disposal_method |-> 1],
      [image |-> MixedImage, tile |-> <<0, 1, 2, 3>>, disposal_method |-> 0],
      [image |-> MixedImage, tile |-> <<0, 1, 2, 3>>, disposal_method |-> 2] }

\* A faulty variant of CanvasSlot: one canvas shared by every call.
CanvasSlotShared(s) == 1

\* base_canvas is a local variable of the call: call s uses its own.
CanvasSlot(s) == s

SessionsInit ==
    /\ sessions \in [Sessions -> [preserve_alpha : BOOLEAN,
                                  n_frames : 1..MaxSessionFrames,
                                  i : {0},
                                  gif_frames : {<<>>},
                                  frames_out : {<<>>},
                                  returned : {None}]]
    /\ canvases = [s \in Sessions |-> NoCanvas]

\* One loop iteration of call s.
SessionFrame(s) ==
    /\ s \in DOMAIN sessions
    /\ sessions[s].i < sessions[s].n_frames
    /\ \E fr \in SessionFrames :
        LET step == ComposeFrame(canvases[CanvasSlot(s)], sessions[s].i, fr,
                                 sessions[s].preserve_alpha)
        IN  /\ sessions' = [sessions EXCEPT
                  ![s].i = @ + 1,
                  ![s].gif_frames = Append(@, fr),
                  ![s].frames_out =
                      Append(@, SavedImage(step.frame_to_save, sessions[s].preserve_alpha))]
            /\ canvases' = [canvases EXCEPT ![CanvasSlot(s)] = step.base_canvas]
    /\ UNCHANGED <<gifvars, cutvars, batchvars>>
    /\ UNCHANGED heapvars

\* Call s has exhausted its loop: return n_frames.
SessionReturn(s) ==
    /\ s \in DOMAIN sessions
    /\ sessions[s].i = sessions[s].n_frames
    /\ sessions[s].returned = None
    /\ sessions' = [sessions EXCEPT ![s].returned = sessions[s].n_frames]
    /\ UNCHANGED canvases
    /\ UNCHANGED <<gifvars, cutvars, batchvars>>
    /\ UNCHANGED heapvars

InitSessions == GifIdle /\ CutIdle /\ BatchIdle /\ SessionsInit /\ HeapIdle

SessionStep == \E s \in Sessions : SessionFrame(s)

SessionEnd == \E s \in Sessions : SessionReturn(s)

SessionsNext == SessionStep \/ SessionEnd

SpecSessions == InitSessions /\ [][SessionsNext]_vars

(***************************************************************************)
(* extract_frames_from_gif with its images as objects: an image is an      *)
(* object of the heap, a local holds an object's number, copy() and        *)
(* Image.new() make a new object, paste() changes an object in place.      *)
(***************************************************************************)
MaxHeapFrames == 3

\* A new object holding px.
Alloc(h, px) == [heap |-> Append(h, px), ref |-> Len(h) + 1]

\* A faulty variant of CopyObject: no copy is made, the same object is used.
CopyObjectAliased(h, r) == [heap |-> h, ref |-> r]

\* image.copy(): a new object with the pixels of object r.
CopyObject(h, r) == Alloc(h, h[r])

\* The body of the loop for frame idx, on objects.
HeapIteration(h, base, idx, fr, alpha) ==
    LET disposal_method == fr.disposal_method
        frame == Alloc(h, fr.image.px)
        canvas == IF NeedsNewCanvas(idx, disposal_method)
                  THEN Alloc(frame.heap, NewCanvas)
                  ELSE [heap |-> frame.heap, ref |-> base]
        position == FramePosition(fr)
    IN  IF canvas.ref = None
        THEN [heap |-> canvas.heap, base_canvas |-> canvas.ref, emitted |-> frame.ref]
        ELSE LET current_frame == CopyObject(canvas.heap, canvas.ref)
                 pasted == [current_frame.heap EXCEPT ![current_frame.ref] =
                               Paste(@, fr.image, position, alpha)]
                 kept == IF KeepsFrame(disposal_method)
                         THEN CopyObject(pasted, current_frame.ref)
                         ELSE [heap |-> pasted, ref |-> canvas.ref]
             IN  [heap |-> kept.heap, base_canvas |-> kept.ref,
                  emitted |-> current_frame.ref]

HeapInit ==
    /\ heap = <<>>
    /\ refs \in [n_frames : 1..MaxHeapFrames, preserve_alpha : BOOLEAN, i : {0},
                 base_canvas : {None}, gif_frames : {<<>>}, emitted : {<<>>},
                 returned : {None}]

\* One iteration of "for i in range(n_frames)".
HeapFrame ==
    /\ refs # <<>>
    /\ refs.i < refs.n_frames
    /\ \E fr \in SessionFrames :
        LET step == HeapIteration(heap, refs.base_canvas, refs.i, fr, refs.preserve_alpha)
        IN  /\ heap' = step.heap
            /\ refs' = [refs EXCEPT !.i = @ + 1,
                                    !.base_canvas = step.base_canvas,
                                    !.gif_frames = Append(@, fr),
                                    !.emitted = Append(@, step.emitted)]
    /\ UNCHANGED <<gifvars, cutvars, batchvars, sessvars>>

\* The loop is exhausted: return n_frames.
HeapReturn ==
    /\ refs # <<>>
    /\ refs.i = refs.n_frames
    /\ refs.returned = None
    /\ refs' = [refs EXCEPT !.returned = refs.n_frames]
    /\ UNCHANGED heap
    /\ UNCHANGED <<gifvars, cutvars, batchvars, sessvars>>

InitHeap == GifIdle /\ CutIdle /\ BatchIdle /\ SessionsIdle /\ HeapInit

HeapNext == HeapFrame \/ HeapReturn

SpecHeap == InitHeap /\ [][HeapNext]_vars

(***************************************************************************)
(* image_cutter main() on a directory: every file with an image suffix is  *)
(* handed to process_image, which catches every Exception.                 *)
(***************************************************************************)
MaxFiles == 3

ImageExtensions == {".png", ".jpg", ".jpeg", ".webp", ".gif", ".bmp", ".tiff"}

TwoSprites ==
    [mode |-> "RGBA", width |-> 3, height |-> 1,
     px |-> [c \in Cells(3, 1) |-> IF c[1] = 1 THEN Transparent ELSE Faint]]

BlankSheet ==
    [mode |-> "RGBA", width |-> 2, height |-> 1,
     px |-> [c \in Cells(2, 1) |-> Transparent]]

\* The files a directory may hold: a sheet with two sprites, a fully
\* transparent sheet, a file Image.open cannot read, a file that is no image.
DirFiles ==
    { [suffix |-> ".png", readable |-> TRUE, image |-> TwoSprites],
      [suffix |-> ".png", readable |-> TRUE, image |-> BlankSheet],
      [suffix |-> ".png", readable |-> FALSE, image |-> BlankSheet],
      [suffix |-> ".txt", readable |-> FALSE, image |-> BlankSheet] }

RECURSIVE SeqsUpTo(_, _)
SeqsUpTo(S, n) ==
    IF n = 0 THEN {<<>>}
    ELSE LET shorter == SeqsUpTo(S, n - 1) IN
         shorter \cup { Append(q, x) : q \in shorter, x \in S }

\* The command lines; a width of 0 with a slice count (frames of width 0,
\* whose save is not modelled) is left out.
BatchArgs ==
    { a \in [width : {None, 0, 1}, height : {None}, slices : {None, 2},
             direction : {"h"}, auto_detect : BOOLEAN, padding : {0},
             resize : {<<>>}] :
        ~(a.width = 0 /\ a.slices = 2 /\ ~a.auto_detect) }

\* if not args.width and not args.slices: parser.error(...)
\* (args.width is the option's string: any given width is true.)
MissingSize(a) == a.width = None /\ ~Truthy(a.slices)

\* file.suffix.lower() in image_extensions
Eligible(file) == file.suffix \in ImageExtensions

\* A faulty variant of FileNumber: the files are numbered from 0.
FileNumberFromZero(idx) == idx

\* filename = f"{action_name}_{i+1}.{ext}": the number in the name of frame i.
FileNumber(idx) == idx + 1

\* for i, frame in enumerate(frames): ... saved_files.append(filepath)
RECURSIVE SaveLoop(_, _, _)
SaveLoop(fs, idx, saved_files) ==
    IF idx >= Len(fs) THEN saved_files
    ELSE SaveLoop(fs, idx + 1, Append(saved_files, FileNumber(idx)))

\* save_frames: the files written, each named by its number.
save_frames(fs) == SaveLoop(fs, 0, <<>>)

\* A faulty variant of NoFrames: the empty result is not noticed.
NoFramesNever(fs) == FALSE

\* if not frames
NoFrames(fs) == fs = <<>>

\* A faulty variant of Catches: nothing is caught.
CatchesNothing(exc) == FALSE

\* except Exception as e
Catches(exc) == exc \in {"UnidentifiedImageError", "ValueError", "ZeroDivisionError"}

\* process_image(image_path, args): what it did with one file.
process_image(file, a) ==
    IF ~file.readable
    THEN [status |-> "error", error |-> "UnidentifiedImageError", warned |-> FALSE,
          made_dir |-> FALSE, saved_files |-> <<>>]
    ELSE LET r == slice_sprite(file.image, a) IN
         IF r.raised # ""
         THEN [status |-> "error", error |-> r.raised, warned |-> FALSE,
               made_dir |-> FALSE, saved_files |-> <<>>]
         ELSE IF NoFrames(r.frames)
         THEN [status |-> "no_frames", error |-> "", warned |-> r.warned,
               made_dir |-> FALSE, saved_files |-> <<>>]
         ELSE [status |-> "saved", error |-> "", warned |-> r.warned,
               made_dir |-> TRUE, saved_files |-> save_frames(r.frames)]

BatchInit ==
    /\ batch_pc = "parse"
    /\ batch_args \in BatchArgs
    /\ directory \in SeqsUpTo(DirFiles, MaxFiles)
    /\ next_file = 1
    /\ report = <<>>

\* main: parse_args and the validation of --width / --slices.
ParseArgs ==
    /\ batch_pc = "parse"
    /\ batch_pc' = IF MissingSize(batch_args) THEN "usage" ELSE "run"
    /\ UNCHANGED <<batch_args, directory, next_file, report>>
    /\ UNCHANGED <<gifvars, cutvars>>
    /\ UNCHANGED sessvars
    /\ UNCHANGED heapvars

\* for file in input_path.iterdir(): one file.
ProcessFile ==
    /\ batch_pc = "run"
    /\ next_file <= Len(directory)
    /\ LET file == directory[next_file]
           done == process_image(file, batch_args)
       IN  IF ~Eligible(file)
           THEN /\ report' = report
                /\ batch_pc' = batch_pc
           ELSE IF done.status = "error" /\ ~Catches(done.error)
           THEN /\ report' = report
                /\ batch_pc' = "crashed"
           ELSE /\ report' = Append(report, [file |-> next_file] @@ done)
                /\ batch_pc' = batch_pc
    /\ next_file' = next_file + 1
    /\ UNCHANGED <<batch_args, directory>>
    /\ UNCHANGED <<gifvars, cutvars>>
    /\ UNCHANGED sessvars
    /\ UNCHANGED heapvars

\* The directory is exhausted: return 0.
BatchDone ==
    /\ batch_pc = "run"
    /\ next_file > Len(directory)
    /\ batch_pc' = "done"
    /\ UNCHANGED <<batch_args, directory, next_file, report>>
    /\ UNCHANGED <<gifvars, cutvars>>
    /\ UNCHANGED sessvars
    /\ UNCHANGED heapvars

InitBatch == GifIdle /\ CutIdle /\ BatchInit /\ SessionsIdle /\ HeapIdle

BatchNext == ParseArgs \/ ProcessFile \/ BatchDone

SpecBatch == InitBatch /\ [][BatchNext]_vars

(***************************************************************************)
(* A run of either tool: extract_frames_from_gif on one animation, or      *)
(* image_cutter main() on one directory.                                   *)
(***************************************************************************)
InitRuns == Init \/ InitBatch

RunsNext == Next \/ BatchNext

SpecRuns == InitRuns /\ [][RunsNext]_vars

(***************************************************************************)
(* Properties of the frame compositor.  Frames are numbered from 1 in the  *)
(* sequences (frame k here is the code's frame k-1).                       *)
(***************************************************************************)
\* The cell of frame fr's image that lands on canvas cell c.
SourceCell(fr, c) == <<c[1] - fr.tile[1], c[2] - fr.tile[2]>>

InBox(fr, c) == SourceCell(fr, c) \in Cells(fr.image.w, fr.image.h)

\* Frame fr's sample at canvas cell c is drawn (it is not skipped by the mask).
Writes(fr, c) ==
    /\ InBox(fr, c)
    /\ preserve_alpha => Alpha(fr.image.px[SourceCell(fr, c)]) > 0

\* Pasting deltas 1..n in order onto one transparent canvas, never clearing.
RECURSIVE PasteAll(_)
PasteAll(n) ==
    IF n = 0 THEN NewCanvas
    ELSE Paste(PasteAll(n - 1), gif_frames[n].image,
               <<gif_frames[n].tile[1], gif_frames[n].tile[2]>>, preserve_alpha)

AllDoNotDispose(n) == \A k \in 1..n : gif_frames[k].disposal_method = 1

SurvivingOpaque(n) ==
    \A j \in 1..n : \A c \in CanvasCells :
        ( /\ InBox(gif_frames[j], c)
          /\ Alpha(gif_frames[j].image.px[SourceCell(gif_frames[j], c)]) = 255
          /\ \A k \in (j + 1)..n : ~Writes(gif_frames[k], c) )
        => frames_out[n][c] = gif_frames[j].image.px[SourceCell(gif_frames[j], c)]

\* C1: when every frame so far has disposal method 1 (DoNotDispose), the
\* frame emitted for index N is the result of pasting deltas 0..N in order
\* onto one initially transparent canvas with no clearing, and every opaque
\* pixel of an earlier frame not overwritten by a later one is present in it.
C1_DoNotDisposeAccumulates ==
    \A n \in 1..Len(frames_out) :
        AllDoNotDispose(n) => frames_out[n] = PasteAll(n) /\ SurvivingOpaque(n)

C1_Witness ==
    /\ Len(frames_out) = 3
    /\ AllDoNotDispose(3)
    /\ \E c1, c2 \in CanvasCells :
        /\ frames_out[3][c1] = Red /\ frames_out[3][c2] = Blue
        /\ frames_out[2][c1] = Red /\ frames_out[1][c2] = Red
    /\ frames_out[3] # frames_out[2]

RedCanvas == [c \in CanvasCells |-> Red]

BlueSquareOn(p) ==
    [c \in CanvasCells |-> IF c[1] \in 1..2 /\ c[2] \in 1..2 THEN Blue ELSE p]

\* Frame 0 = full-canvas opaque red with RestoreToBackground (2), frame 1 =
\* 2x2 opaque blue at (1,1) with any disposal method; both processed.
Scenario2 ==
    /\ Len(frames_out) >= 2
    /\ gif_frames[1].image = SolidImage(CanvasW, CanvasH, Red)
    /\ gif_frames[1].tile = <<0, 0, CanvasW, CanvasH>>
    /\ gif_frames[1].disposal_method = 2
    /\ gif_frames[2].image = SolidImage(2, 2, Blue)
    /\ gif_frames[2].tile = <<1, 1, 3, 3>>

\* C2 as stated: in the two-frame scenario frame 0 is emitted all red and
\* frame 1 is emitted as a red canvas with the blue 2x2 square at (1,1).
C2_Original ==
    Scenario2 => frames_out[1] = RedCanvas /\ frames_out[2] = BlueSquareOn(Red)

\* C2 amended: in the two-frame scenario frame 0 is emitted all red and
\* frame 1 is emitted as a fully transparent canvas with the blue 2x2 square
\* at (1,1).
C2_BlueOnTransparent ==
    Scenario2 => frames_out[1] = RedCanvas
                 /\ frames_out[2] = BlueSquareOn(Transparent)

C2_Witness ==
    /\ Scenario2
    /\ frames_out[2][<<1, 1>>] = Blue
    /\ frames_out[2][<<0, 0>>] = Transparent

IsSmall(fr) == fr.image.w < CanvasW /\ fr.image.h < CanvasH

\* Frame 0 = opaque full canvas with RestoreToPrevious (3), frame 1 = a small
\* delta that is not disposed of (method 0 or 1), frame 2 = a small delta with
\* DoNotDispose (1); all three processed.
Scenario3 ==
    /\ Len(drawn_on) >= 3
    /\ gif_frames[1].image = SolidImage(CanvasW, CanvasH, Red)
    /\ gif_frames[1].disposal_method = 3
    /\ IsSmall(gif_frames[2])
    /\ gif_frames[2].disposal_method \in {0, 1}
    /\ IsSmall(gif_frames[3])
    /\ gif_frames[3].disposal_method = 1

\* C3: in the three-frame scenario the canvas onto which frame 2's delta is
\* drawn is the transparent pre-frame-0 canvas plus frame 1's delta only.
C3_RolledBackPlusFrame1 ==
    Scenario3 =>
        drawn_on[3] = Paste(NewCanvas, gif_frames[2].image,
                            <<gif_frames[2].tile[1], gif_frames[2].tile[2]>>,
                            preserve_alpha)

\* C4: for every frame i >= 1 whose predecessor has disposal method 0
\* (Unspecified) or 1 (DoNotDispose), the canvas onto which frame i's delta is
\* drawn is the composited frame emitted for frame i-1.
C4_BackgroundPersists ==
    \A k \in 2..Len(drawn_on) :
        gif_frames[k - 1].disposal_method \in {0, 1}
            => drawn_on[k] = frames_out[k - 1]

\* C5: when frame i-1 has disposal method 2 (RestoreToBackground), the canvas
\* onto which frame i is drawn equals the frame emitted for i-1 outside frame
\* i-1's box and is transparent inside it, and the clearing was not applied
\* before frame i-1 itself was drawn: frame i-1 was drawn over the frame kept
\* from a DoNotDispose predecessor.
C5_ClearedAfterEmit ==
    \A k \in 2..Len(drawn_on) :
        gif_frames[k - 1].disposal_method = 2 =>
            /\ \A c \in CanvasCells :
                  drawn_on[k][c] = IF InBox(gif_frames[k - 1], c) THEN Transparent
                                   ELSE frames_out[k - 1][c]
            /\ (k >= 3 /\ gif_frames[k - 2].disposal_method = 1)
                  => drawn_on[k - 1] = frames_out[k - 2]

(***************************************************************************)
(* Properties of the region scanner and of the cutter.                     *)
(***************************************************************************)
\* The alpha of a sheet's sample; a sheet without alpha channel is opaque.
SheetAlpha(im, c) == IF im.mode = "RGBA" THEN im.px[c][4] ELSE 255

AxisLength(im, direction) == IF direction = "h" THEN im.width ELSE im.height

\* The lines (columns for "h", rows for "v") holding a sample with alpha > 0.
OpaqueLines(im, direction) ==
    { k \in 0..(AxisLength(im, direction) - 1) :
        \E c \in DOMAIN im.px :
            /\ (IF direction = "h" THEN c[1] ELSE c[2]) = k
            /\ SheetAlpha(im, c) > 0 }

Covered(regs) == UNION { regs[k][1]..regs[k][2] : k \in 1..Len(regs) }

\* C6: the union of the intervals [start, end] returned by
\* detect_transparent_regions is exactly the set of lines of the scan axis
\* that hold at least one sample with alpha > 0.
C6_RegionsCoverOpaqueLines ==
    cpc = "detected" => Covered(regions) = OpaqueLines(img, args.direction)

C6_Witness ==
    /\ cpc = "detected"
    /\ Len(regions) = 2
    /\ Covered(regions) # 0..(AxisLength(img, args.direction) - 1)

\* C7: the regions returned never overlap and are in strictly ascending
\* order: s1 <= e1 < s2 <= e2 for consecutive regions (s1,e1), (s2,e2).
C7_RegionsAscendingDisjoint ==
    cpc = "detected" =>
        /\ \A k \in 1..Len(regions) : regions[k][1] <= regions[k][2]
        /\ \A k \in 1..(Len(regions) - 1) : regions[k][2] < regions[k + 1][1]

C7_Witness ==
    /\ cpc = "detected"
    /\ Len(regions) = 2
    /\ regions[1][2] < regions[2][1]
    /\ args.direction = "h"

AllTransparent(im) == im.mode = "RGBA" /\ \A c \in DOMAIN im.px : im.px[c][4] = 0

\* C8: a sheet whose samples all have alpha = 0 yields no region, for
\* direction "h" and for direction "v".
C8_TransparentSheetNoRegion ==
    (cpc = "detected" /\ AllTransparent(img)) => regions = <<>>

C8_Witness ==
    /\ cpc = "detected"
    /\ AllTransparent(img)
    /\ img.width = MaxImgW /\ img.height > 1
    /\ args.direction = "v"
    /\ regions = <<>>

FullyOpaque(im) == \A c \in DOMAIN im.px : SheetAlpha(im, c) > 0

\* C9: a sheet of width N and height M whose samples all have alpha > 0
\* yields exactly the region (0, N-1) for direction "h" and exactly the
\* region (0, M-1) for direction "v".
C9_OpaqueSheetOneRegion ==
    (cpc = "detected" /\ FullyOpaque(img)) =>
        regions = << <<0, AxisLength(img, args.direction) - 1>> >>

C9_Witness ==
    /\ cpc = "detected"
    /\ FullyOpaque(img)
    /\ img.mode = "RGBA"
    /\ img.width = MaxImgW /\ img.height > 1
    /\ args.direction = "h"
    /\ regions = << <<0, MaxImgW - 1>> >>

\* A fixed-grid call with only the frame width given.
PlainFixedGrid ==
    /\ cpc = "sliced"
    /\ ~args.auto_detect
    /\ args.slices = None /\ args.height = None
    /\ args.padding = 0 /\ args.resize = <<>>
    /\ args.width >= 1
    /\ AxisLength(img, args.direction) % args.width = 0

\* The frames put side by side along the slicing axis are the sheet.
TilesRebuildSheet ==
    /\ \A k \in 1..Len(frames) :
        /\ frames[k].mode = img.mode
        /\ frames[k].width = IF args.direction = "h" THEN args.width ELSE img.width
        /\ frames[k].height = IF args.direction = "h" THEN img.height ELSE args.width
    /\ \A c \in DOMAIN img.px :
        IF args.direction = "h"
        THEN frames[(c[1] \div args.width) + 1].px[<<c[1] % args.width, c[2]>>]
                = img.px[c]
        ELSE frames[(c[2] \div args.width) + 1].px[<<c[1], c[2] % args.width>>]
                = img.px[c]

\* C10: fixed-grid slicing (auto_detect off, slices, height, padding and
\* resize omitted) of a W x H sheet with a frame width w dividing W returns
\* exactly W/w frames whose concatenation left to right is the sheet, pixel
\* for pixel (and likewise top to bottom along H for direction "v").
C10_FixedGridRebuildsSheet ==
    PlainFixedGrid =>
        /\ raised = ""
        /\ Len(frames) = AxisLength(img, args.direction) \div args.width
        /\ TilesRebuildSheet

C10_Witness ==
    /\ PlainFixedGrid
    /\ args.direction = "h"
    /\ img.width = 2 * args.width
    /\ Len(frames) = 2
    /\ frames[1] # frames[2]

\* The call returned frames: it raised nothing.
Sliced == cpc = "sliced" /\ raised = ""

\* Frame k is the crop of box k with a transparent border of p samples on
\* every side: 2p wider and higher, the crop at offset (p, p).
IsPaddedCrop(frame, crop, p) ==
    /\ frame.width = crop.width + 2 * p
    /\ frame.height = crop.height + 2 * p
    /\ \A c \in DOMAIN frame.px :
        LET s == <<c[1] - p, c[2] - p>> IN
        frame.px[c] = IF s \in Cells(crop.width, crop.height)
                      THEN ConvertRGBA(crop).px[s] ELSE Transparent

AllFramesPadded ==
    /\ Len(frames) = Len(boxes)
    /\ \A k \in 1..Len(frames) :
        IsPaddedCrop(frames[k], Crop(img, boxes[k]), args.padding)

\* C11 as stated: for padding p > 0, in both modes and both directions,
\* every frame returned is exactly 2p wider and 2p taller than the unpadded
\* crop, the crop sits unchanged at offset (p, p) and the border is
\* transparent.
C11_Original == (Sliced /\ args.padding > 0) => AllFramesPadded

\* C11 amended: the same for every call that gives no resize target.
C11_PaddingAddsBorder ==
    (Sliced /\ args.padding > 0 /\ args.resize = <<>>) => AllFramesPadded

C11_Witness ==
    /\ Sliced /\ args.padding = 1 /\ args.resize = <<>>
    /\ args.auto_detect /\ args.direction = "h"
    /\ Len(frames) = 2
    /\ frames[1].px[<<1, 1>>] = Faint
    /\ frames[1].px[<<0, 0>>] = Transparent

\* One frame per detected region, in region order.
FramePerRegion ==
    Len(frames) = Len(detect_transparent_regions(img, args.direction))

\* Frame k is exactly the lines start_k..end_k of the sheet, at full extent
\* across the axis.
FramesAreRegions ==
    LET regs == detect_transparent_regions(img, args.direction) IN
    \A k \in 1..Len(frames) :
        LET start == regs[k][1]
            end == regs[k][2]
        IN  /\ frames[k].mode = img.mode
            /\ frames[k].width = IF args.direction = "h" THEN end - start + 1
                                 ELSE img.width
            /\ frames[k].height = IF args.direction = "h" THEN img.height
                                  ELSE end - start + 1
            /\ \A c \in DOMAIN frames[k].px :
                frames[k].px[c] = IF args.direction = "h"
                                  THEN img.px[<<start + c[1], c[2]>>]
                                  ELSE img.px[<<c[1], start + c[2]>>]

\* C12 as stated: in auto-detect mode there is one frame per detected region,
\* in region order, and frame k has the region's extent along the axis, the
\* sheet's full extent across it, and exactly the lines start_k..end_k.
C12_Original == (Sliced /\ args.auto_detect) => FramePerRegion /\ FramesAreRegions

\* C12 amended: one frame per detected region in every auto-detect call; the
\* frame is exactly the region's lines when no padding and no resize is given.
C12_FramePerRegion ==
    (Sliced /\ args.auto_detect) =>
        /\ FramePerRegion
        /\ (args.padding = 0 /\ args.resize = <<>>) => FramesAreRegions

C12_Witness ==
    /\ Sliced /\ args.auto_detect
    /\ args.padding = 0 /\ args.resize = <<>>
    /\ args.direction = "h"
    /\ Len(frames) = 2
    /\ frames[1].width = 1 /\ frames[2].width = 1
    /\ img.width = 3 /\ img.height = 2
    /\ frames[1] # frames[2]

\* The frame extent along the axis that the call uses.
FrameWidthUsed ==
    IF args.width # None THEN args.width
    ELSE AxisLength(img, args.direction) \div args.slices

\* The number of tiles the loop may visit.
TileCount ==
    IF args.slices # None /\ args.slices # 0 THEN args.slices
    ELSE AxisLength(img, args.direction) \div FrameWidthUsed

BoxStart(b) == IF args.direction = "h" THEN b[1] ELSE b[2]

BoxEnd(b) == IF args.direction = "h" THEN b[3] ELSE b[4]

\* C13: in fixed-grid mode every tile i whose start i*fw lies inside the
\* sheet is emitted, a tile whose nominal span [i*fw, (i+1)*fw) runs past the
\* end L is emitted clipped to [i*fw, L) without an error, and no emitted
\* tile extends beyond L-1.
C13_TilesClipped ==
    (Sliced /\ ~args.auto_detect) =>
        LET L == AxisLength(img, args.direction)
            fw == FrameWidthUsed
        IN  /\ Len(frames) = Len(boxes)
            /\ Len(boxes) = Cardinality({t \in 0..(TileCount - 1) : t * fw < L})
            /\ \A k \in 1..Len(boxes) :
                /\ BoxStart(boxes[k]) = (k - 1) * fw
                /\ BoxEnd(boxes[k]) = IF k * fw > L THEN L ELSE k * fw
                /\ BoxEnd(boxes[k]) <= L
                /\ (args.padding = 0 /\ args.resize = <<>>) =>
                      (IF args.direction = "h" THEN frames[k].width
                       ELSE frames[k].height) = BoxEnd(boxes[k]) - BoxStart(boxes[k])

C13_Witness ==
    /\ Sliced /\ ~args.auto_detect
    /\ args.direction = "h" /\ args.width = 2 /\ args.slices = 2
    /\ img.width = 3
    /\ Len(boxes) = 2
    /\ boxes[2][1] = 2 /\ boxes[2][3] = 3
    /\ args.padding = 0 /\ args.resize = <<>>
    /\ frames[2].width = 1

\* C14: in fixed-grid mode, for every width >= 1 and slice count >= 1
\* accepted by slice_sprite (slices greater than the axis length included),
\* every returned frame has width >= 1 and height >= 1 before padding.
C14_NoZeroAreaFrame ==
    ( /\ Sliced /\ ~args.auto_detect
      /\ (args.width = None \/ args.width >= 1)
      /\ (args.slices = None \/ args.slices >= 1) ) =>
        \A k \in 1..Len(boxes) :
            /\ boxes[k][3] - boxes[k][1] >= 1
            /\ boxes[k][4] - boxes[k][2] >= 1

\* C15: a call with neither a frame width nor a slice count raises
\* ValueError before any region scan or crop, for both auto_detect settings
\* and both directions, and returns no frame.
C15_NeitherWidthNorSlices ==
    (cpc = "sliced" /\ args.width = None /\ args.slices = None) =>
        /\ raised = "ValueError"
        /\ frames = <<>>
        /\ ~scanned /\ ~warned
        /\ boxes = <<>>

C15_Witness ==
    /\ cpc = "sliced" /\ args.width = None /\ args.slices = None
    /\ args.auto_detect /\ args.direction = "v"
    /\ \E c \in DOMAIN img.px : SheetAlpha(img, c) > 0
    /\ raised = "ValueError"


\* The frame's box (paste position plus delta size) lies inside the canvas.
BoxInsideCanvas(fr) ==
    /\ FramePosition(fr)[1] >= 0
    /\ FramePosition(fr)[2] >= 0
    /\ FramePosition(fr)[1] + fr.image.w <= CanvasW
    /\ FramePosition(fr)[2] + fr.image.h <= CanvasH

\* C17: a frame whose box extends outside the canvas aborts the session at
\* that frame; no composited frame is emitted for it.
C17_OverhangAborts ==
    \A k \in 1..Len(gif_frames) :
        ~BoxInsideCanvas(gif_frames[k]) => Len(frames_out) < k

\* C18: a frame whose disposal method is none of 0, 1, 2, 3 aborts the
\* session; no composited frame is emitted for it.
C18_UnknownDisposalAborts ==
    \A k \in 1..Len(gif_frames) :
        gif_frames[k].disposal_method \notin DisposalMethods => Len(frames_out) < k

(***************************************************************************)
(* Properties of a directory run.                                          *)
(***************************************************************************)
\* The file a report entry is about.
ReportedFile(entry) == directory[entry.file]

\* Auto-detection ran on the file and found no region.
FindsNoRegion(file) ==
    /\ batch_args.auto_detect
    /\ file.readable
    /\ calculate_dimensions(file.image, batch_args.width, batch_args.height,
                            batch_args.slices, batch_args.direction).raised = ""
    /\ detect_transparent_regions(file.image, batch_args.direction) = <<>>

\* C16: when auto-detection finds no region, slice_sprite returns no frame
\* and warns without raising; process_image then writes no file and returns
\* normally, and the run is not ended by it.
C16_NoRegionIsNotFatal ==
    /\ batch_pc # "crashed"
    /\ \A k \in 1..Len(report) :
        FindsNoRegion(ReportedFile(report[k])) =>
            LET r == slice_sprite(ReportedFile(report[k]).image, batch_args) IN
            /\ r.raised = ""
            /\ r.frames = <<>>
            /\ r.warned
            /\ report[k].status = "no_frames"
            /\ report[k].error = ""
            /\ report[k].warned
            /\ ~report[k].made_dir
            /\ report[k].saved_files = <<>>

\* A blank sheet was processed under auto-detection, and the run went on to
\* save the frames of a later file and to finish.
C16_Witness ==
    /\ batch_pc = "done"
    /\ Len(report) = 2
    /\ FindsNoRegion(ReportedFile(report[1]))
    /\ report[1].status = "no_frames"
    /\ report[2].status = "saved"

\* The positions of the eligible files among the first n of the directory.
RECURSIVE EligibleUpTo(_)
EligibleUpTo(n) ==
    IF n = 0 THEN <<>>
    ELSE IF Eligible(directory[n])
         THEN Append(EligibleUpTo(n - 1), n)
         ELSE EligibleUpTo(n - 1)

\* C19: in a directory run an error in one image ends only that image: every
\* eligible file gets processed, whatever the order of failing, empty and
\* succeeding files, with the result it has when processed on its own.
C19_ErrorsAreIsolated ==
    /\ batch_pc # "crashed"
    /\ batch_pc \in {"run", "done"} =>
        LET seen == EligibleUpTo(next_file - 1) IN
        /\ Len(report) = Len(seen)
        /\ \A k \in 1..Len(seen) :
            /\ report[k].file = seen[k]
            /\ report[k] = [file |-> seen[k]]
                           @@ process_image(directory[seen[k]], batch_args)
    /\ batch_pc = "done" => next_file = Len(directory) + 1

\* A failing file came first, then a succeeding one, then an empty one, and
\* all three were processed.
C19_Witness ==
    /\ batch_pc = "done"
    /\ Len(directory) = 3
    /\ Len(report) = 3
    /\ report[1].status = "error"
    /\ report[2].status = "saved"
    /\ Len(report[2].saved_files) = 2
    /\ report[3].status = "no_frames"


(***************************************************************************)
(* Properties of interleaved calls.                                        *)
(***************************************************************************)
\* What one call emits for the frames frs when nothing else runs.
RECURSIVE AloneRun(_, _, _, _, _)
AloneRun(frs, alpha, k, base, out) ==
    IF k > Len(frs) THEN out
    ELSE LET step == ComposeFrame(base, k - 1, frs[k], alpha) IN
         AloneRun(frs, alpha, k + 1, step.base_canvas,
                  Append(out, SavedImage(step.frame_to_save, alpha)))

AloneOutputs(frs, alpha) == AloneRun(frs, alpha, 1, NoCanvas, <<>>)

\* C20: no compositor state crosses calls: two calls of
\* extract_frames_from_gif, one after the other or interleaved frame by
\* frame, each emit exactly the frames they emit when run alone.
C20_SessionsAreIsolated ==
    \A s \in DOMAIN sessions :
        sessions[s].frames_out
            = AloneOutputs(sessions[s].gif_frames, sessions[s].preserve_alpha)

\* Call 1 kept its red frame, call 2 then started and drew, and call 1's
\* second frame was still composed on its own red canvas.
C20_Witness ==
    /\ DOMAIN sessions = Sessions
    /\ sessions[1].i = 2
    /\ sessions[2].i >= 1
    /\ sessions[1].returned = None
    /\ sessions[2].returned = None
    /\ sessions[1].preserve_alpha
    /\ sessions[1].gif_frames[1].image = SolidImage(CanvasW, CanvasH, Red)
    /\ sessions[1].gif_frames[2].image = SolidImage(2, 2, Blue)
    /\ sessions[2].gif_frames[1].image = MixedImage
    /\ sessions[1].frames_out[2].px[<<0, 0>>] = Red
    /\ sessions[1].frames_out[2].px[<<1, 1>>] = Blue
    /\ sessions[2].frames_out[1].px[<<0, 0>>] = Transparent

(***************************************************************************)
(* Resizing.                                                               *)
(***************************************************************************)
\* The crop of box k with the border the call asks for.
PaddedCrop(k) ==
    IF args.padding > 0 THEN AddPadding(Crop(img, boxes[k]), args.padding)
    ELSE Crop(img, boxes[k])

\* C21: with a resize target (w, h) every frame returned has exactly width w
\* and height h, in both modes and both directions, and it is the padded
\* crop that is resized.
C21_ResizeGivesExactSize ==
    (Sliced /\ args.resize # <<>>) =>
        /\ Len(frames) = Len(boxes)
        /\ \A k \in 1..Len(frames) :
            /\ frames[k].width = args.resize[1]
            /\ frames[k].height = args.resize[2]
            /\ DOMAIN frames[k].px = Cells(args.resize[1], args.resize[2])
            /\ frames[k] = Resize(PaddedCrop(k), args.resize)

\* A padded fixed-grid tile of a vertical cut was resized.
C21_Witness ==
    /\ Sliced /\ args.resize = <<2, 1>> /\ args.padding = 1
    /\ ~args.auto_detect /\ args.direction = "v"
    /\ Len(frames) >= 1
    /\ PaddedCrop(1).width >= 3
    /\ frames[1].width = 2 /\ frames[1].height = 1

(***************************************************************************)
(* Order and count of the frames produced.                                 *)
(***************************************************************************)
\* The source frames are taken in index order and each gives one composited
\* frame, saved under its own index.
OneFramePerSourceFrame ==
    /\ Len(gif_frames) = i
    /\ Len(frames_out) = i
    /\ Len(saved) = i
    /\ Len(frame_paths) = i
    /\ \A k \in 1..i :
        /\ frame_paths[k] = k - 1
        /\ frames_out[k] = ComposeFrame(entry_canvas[k], k - 1, gif_frames[k],
                                        preserve_alpha).frame_to_save
        /\ saved[k] = SavedImage(frames_out[k], preserve_alpha)

\* The sliced frames of a file are saved in order under 1..len(frames).
SavedInSequence ==
    \A k \in 1..Len(report) :
        report[k].status = "saved" =>
            LET fs == slice_sprite(ReportedFile(report[k]).image, batch_args).frames IN
            /\ Len(report[k].saved_files) = Len(fs)
            /\ \A j \in 1..Len(fs) : report[k].saved_files[j] = j

\* C22: extract_frames_from_gif takes the source frames in increasing index
\* order 0..n-1, emits one composited frame per source frame under the same
\* index and returns n; save_frames saves the sliced frames in order under
\* the numbers 1..len(frames) and returns one path per frame.
C22_FramesInOrder ==
    /\ OneFramePerSourceFrame
    /\ i <= n_frames
    /\ pc = "done" => i = n_frames /\ returned = n_frames /\ Len(frames_out) = n_frames
    /\ SavedInSequence

\* A three-frame animation was extracted to the end.
C22_Witness ==
    /\ pc = "done"
    /\ returned = 3
    /\ frame_paths = <<0, 1, 2>>
    /\ Len(frames_out) = 3
    /\ gif_frames[1] # gif_frames[2]

(***************************************************************************)
(* Further properties of the frame compositor.                             *)
(***************************************************************************)
\* C23: when frame i-1 has disposal method 3 (RestoreToPrevious), the canvas
\* onto which frame i's delta is drawn is the canvas as it was just before
\* frame i-1's delta was drawn; for i-1 = 0 that is the transparent canvas.
C23_RestoreToPreviousRollsBack ==
    \A k \in 2..Len(drawn_on) :
        gif_frames[k - 1].disposal_method = 3 =>
            /\ drawn_on[k] = drawn_on[k - 1]
            /\ k = 2 => drawn_on[k] = NewCanvas

\* The delta sample of frame k that falls on canvas pixel c.
DeltaSample(k, c) == gif_frames[k].image.px[SourceCell(gif_frames[k], c)]

\* C24: where the delta sample is fully transparent the canvas pixel keeps
\* its value, where it is fully opaque the pixel takes the delta's value; for
\* every call, preserve_alpha false included.
C24_TransparentKeepsOpaqueReplaces ==
    \A k \in 1..Len(frames_out) :
        \A c \in CanvasCells :
            InBox(gif_frames[k], c) =>
                /\ Alpha(DeltaSample(k, c)) = 0 => frames_out[k][c] = drawn_on[k][c]
                /\ Alpha(DeltaSample(k, c)) = 255 => frames_out[k][c] = DeltaSample(k, c)

(***************************************************************************)
(* Properties of the image objects.                                        *)
(***************************************************************************)
\* The emitted objects are distinct from each other and from the canvas kept.
EmittedAreOwnObjects ==
    refs # <<>> =>
        /\ \A k \in 1..Len(refs.emitted) :
            /\ refs.emitted[k] # refs.base_canvas
            /\ \A j \in 1..Len(refs.emitted) : j # k => refs.emitted[j] # refs.emitted[k]
            /\ SavedImage(heap[refs.emitted[k]], refs.preserve_alpha)
                 = AloneOutputs(refs.gif_frames, refs.preserve_alpha)[k]

\* No step changes an object that existed before it: neither an emitted
\* frame nor the canvas kept from the frame before.
NoObjectChanged == \A r \in DOMAIN heap : heap'[r] = heap[r]

\* C25: the composited frame emitted for index i is a copy decoupled from the
\* persistent canvas: no later step changes a pixel of an emitted frame, and
\* drawing frame i never changes the persistent canvas in place.
C25_EmittedFramesDecoupled == [](EmittedAreOwnObjects) /\ [][NoObjectChanged]_vars

\* Three frames were drawn on a canvas kept from frame to frame, and the
\* first frame emitted still shows only the red frame.
C25_Witness ==
    /\ refs # <<>>
    /\ refs.i = 3
    /\ refs.preserve_alpha
    /\ \A k \in 1..2 : refs.gif_frames[k].disposal_method = 1
    /\ refs.gif_frames[1].image = SolidImage(CanvasW, CanvasH, Red)
    /\ refs.gif_frames[2].image = SolidImage(2, 2, Blue)
    /\ heap[refs.emitted[1]][<<1, 1>>] = Red
    /\ heap[refs.emitted[2]][<<1, 1>>] = Blue
    /\ heap[refs.base_canvas] = heap[refs.emitted[2]]

(***************************************************************************)
(* The persistent canvas.                                                  *)
(***************************************************************************)
\* The base canvas after the k-th frame has been processed.
BaseAfter(k) == IF k < Len(entry_canvas) THEN entry_canvas[k + 1] ELSE base_canvas

\* After frame k the base canvas is the emitted frame if its method is 1,
\* else transparent if it is the first frame or its method is 2, else the
\* base canvas found before the frame.
CanvasUpdateRule ==
    \A k \in 1..Len(frames_out) :
        LET d == gif_frames[k].disposal_method IN
        BaseAfter(k) = IF d = 1 THEN frames_out[k]
                       ELSE IF k = 1 \/ d = 2 THEN NewCanvas
                       ELSE entry_canvas[k]

\* The last frame up to the k-th that starts from a new canvas.
LastReset(k) ==
    CHOOSE m \in 1..k :
        /\ m = 1 \/ gif_frames[m].disposal_method = 2
        /\ \A later \in (m + 1)..k : gif_frames[later].disposal_method # 2

\* The deltas of the frames j..k-1 with method 1, pasted in order on canvas.
RECURSIVE KeptDeltas(_, _, _)
KeptDeltas(j, k, canvas) ==
    IF j >= k THEN canvas
    ELSE KeptDeltas(j + 1, k,
             IF gif_frames[j].disposal_method = 1
             THEN Paste(canvas, gif_frames[j].image, FramePosition(gif_frames[j]),
                        preserve_alpha)
             ELSE canvas)

\* The k-th output as a function of its own delta and of the deltas with
\* method 1 among the frames first..k-1.
OutputFrom(k, first) ==
    Paste(KeptDeltas(first, k, NewCanvas), gif_frames[k].image,
          FramePosition(gif_frames[k]), preserve_alpha)

\* C26 as stated: the update rule, and the output of frame k depends only on
\* frame k's delta and on the deltas of the frames j < k with method 1 that
\* lie after the last frame m <= k with m = 0 or method 2.
C26_Original ==
    /\ CanvasUpdateRule
    /\ \A k \in 1..Len(frames_out) : frames_out[k] = OutputFrom(k, LastReset(k) + 1)

\* C26 amended: the same with the frames j that lie at or after m (frame 0
\* itself counts when its method is 1).
C26_CanvasUpdateRule ==
    /\ CanvasUpdateRule
    /\ \A k \in 1..Len(frames_out) : frames_out[k] = OutputFrom(k, LastReset(k))

\* A kept red frame, a blue frame that was not kept, and a third frame drawn
\* over the red one only.
C26_Witness ==
    /\ Len(frames_out) = 3
    /\ preserve_alpha
    /\ gif_frames[1].disposal_method = 1
    /\ gif_frames[1].image = SolidImage(CanvasW, CanvasH, Red)
    /\ gif_frames[2].disposal_method = 0
    /\ gif_frames[2].image = SolidImage(2, 2, Blue)
    /\ gif_frames[3].disposal_method = 3
    /\ gif_frames[3].image = MixedImage
    /\ LastReset(3) = 1
    /\ frames_out[2][<<1, 2>>] = Blue
    /\ frames_out[3][<<1, 2>>] = Red
    /\ frames_out[3][<<0, 2>>] = Blue
    /\ base_canvas = frames_out[1]

(***************************************************************************)
(* Further properties of the region scanner and of the cutter.             *)
(***************************************************************************)
\* C27: every region (s, e) returned by detect_transparent_regions is a
\* maximal run: 0 <= s <= e <= L-1, every line s..e is opaque, the lines s-1
\* and e+1 (where they exist) are fully transparent, and consecutive regions
\* are at least one transparent line apart (next start >= e + 2).
C27_RegionsAreMaximalRuns ==
    cpc = "detected" =>
        LET L == AxisLength(img, args.direction)
            opaque == OpaqueLines(img, args.direction)
        IN  /\ \A k \in 1..Len(regions) :
                LET s == regions[k][1]
                    e == regions[k][2]
                IN  /\ 0 <= s /\ s <= e /\ e <= L - 1
                    /\ \A line \in s..e : line \in opaque
                    /\ s > 0 => (s - 1) \notin opaque
                    /\ e < L - 1 => (e + 1) \notin opaque
            /\ \A k \in 1..(Len(regions) - 1) : regions[k + 1][1] >= regions[k][2] + 2

\* One region with a transparent line on either side, and two regions one
\* transparent line apart.
C27_Witness ==
    /\ cpc = "detected"
    /\ args.direction = "h"
    /\ AxisLength(img, "h") = 3
    /\ img.height = 2
    /\ regions = << <<0, 0>>, <<2, 2>> >>
    /\ OpaqueLines(img, "h") = {0, 2}

\* The lines of the axis that lie in some crop box.
LinesInBoxes == UNION { BoxStart(boxes[k])..(BoxEnd(boxes[k]) - 1) : k \in 1..Len(boxes) }

\* Exactly count tiles of extent fw from the start of the axis; what is left
\* at the end of the axis is in no tile.
WholeTilesOnly(count, fw) ==
    /\ Len(frames) = count
    /\ Len(boxes) = count
    /\ \A k \in 1..count :
        /\ BoxStart(boxes[k]) = (k - 1) * fw
        /\ BoxEnd(boxes[k]) = k * fw
    /\ LinesInBoxes = 0..(count * fw - 1)
    /\ (args.padding = 0 /\ args.resize = <<>>) =>
          \A k \in 1..count :
              (IF args.direction = "h" THEN frames[k].width ELSE frames[k].height) = fw

\* C28: in fixed-grid mode with the slice count omitted and a frame width fw
\* that does not divide the axis length L, exactly floor(L/fw) tiles of full
\* extent fw are returned and the trailing L mod fw lines are in no frame;
\* with only slices = n given, n tiles of extent floor(L/n) are returned and
\* the trailing L mod n lines are in no frame.
C28_TrailingLinesDropped ==
    LET L == AxisLength(img, args.direction) IN
    /\ ( /\ Sliced /\ ~args.auto_detect
         /\ args.slices = None /\ args.width # None /\ args.width >= 1
         /\ L % args.width # 0 )
          => /\ WholeTilesOnly(L \div args.width, args.width)
             /\ \A line \in (L - (L % args.width))..(L - 1) : line \notin LinesInBoxes
    /\ ( /\ Sliced /\ ~args.auto_detect
         /\ args.width = None /\ args.slices # None )
          => /\ WholeTilesOnly(args.slices, L \div args.slices)
             /\ \A line \in (L - (L % args.slices))..(L - 1) : line \notin LinesInBoxes

\* A sheet 3 wide cut with a frame width of 2: one tile, the third column is
\* in no frame.
C28_Witness ==
    /\ Sliced /\ ~args.auto_detect
    /\ args.direction = "h"
    /\ args.slices = None /\ args.width = 2
    /\ img.width = 3
    /\ Len(frames) = 1
    /\ boxes[1][1] = 0 /\ boxes[1][3] = 2
    /\ 2 \notin LinesInBoxes

\* The image with rows and columns exchanged.
Transpose(im) ==
    [mode |-> im.mode, width |-> im.height, height |-> im.width,
     px |-> [c \in Cells(im.height, im.width) |-> im.px[<<c[2], c[1]>>]]]

\* C29: vertical slicing is horizontal slicing of the transposed image: with
\* no padding and no resize, slice_sprite(img, direction "v") returns as many
\* frames as slice_sprite(transpose(img), direction "h") with the same
\* parameters, each the transpose of the corresponding one, and
\* detect_transparent_regions(img, "v") = detect_transparent_regions(transpose(img), "h").
C29_VerticalIsTransposedHorizontal ==
    /\ (cpc = "sliced" /\ args.direction = "v" /\ args.padding = 0 /\ args.resize = <<>>) =>
          LET r == slice_sprite(Transpose(img), [args EXCEPT !.direction = "h"]) IN
          /\ r.raised = raised
          /\ Len(r.frames) = Len(frames)
          /\ \A k \in 1..Len(frames) : frames[k] = Transpose(r.frames[k])
    /\ (cpc = "detected" /\ args.direction = "v") =>
          regions = detect_transparent_regions(Transpose(img), "h")

\* A sheet 3 wide and 2 high, not equal to its mirror image, cut vertically
\* into two rows.
C29_Witness ==
    /\ cpc = "sliced" /\ raised = ""
    /\ args.direction = "v" /\ ~args.auto_detect
    /\ args.padding = 0 /\ args.resize = <<>>
    /\ args.width = 1 /\ args.height = None /\ args.slices = None
    /\ img.mode = "RGBA" /\ img.width = 3 /\ img.height = 2
    /\ Len(frames) = 2
    /\ frames[1].width = 3 /\ frames[1].height = 1
    /\ frames[1].px[<<0, 0>>] # frames[2].px[<<0, 0>>]
    /\ frames[1].px[<<0, 0>>] # frames[1].px[<<2, 0>>]

(***************************************************************************)
(* The base canvas exists.                                                 *)
(***************************************************************************)
\* C30: at every iteration of the frame loop the base canvas exists when
\* compositing starts, so the raw frame is never emitted in place of a
\* composite and every emitted frame has the full canvas width and height,
\* whatever the delta's size and offset.
C30_BaseCanvasExists ==
    /\ i >= 1 => base_canvas # NoCanvas
    /\ \A k \in 1..Len(frames_out) :
        /\ drawn_on[k] # NoCanvas
        /\ DOMAIN drawn_on[k] = CanvasCells
        /\ DOMAIN frames_out[k] = CanvasCells
        /\ DOMAIN saved[k].px = CanvasCells
        /\ frames_out[k] = Paste(drawn_on[k], gif_frames[k].image,
                                 FramePosition(gif_frames[k]), preserve_alpha)

\* Small deltas only, one of them leaving the canvas, and every frame
\* emitted has the size of the canvas.
C30_Witness ==
    /\ Len(frames_out) = 3
    /\ \A k \in 1..3 : IsSmall(gif_frames[k])
    /\ gif_frames[1].disposal_method = 0
    /\ gif_frames[2].image = OverhangingImage.image
    /\ gif_frames[2].tile = OverhangingImage.tile
    /\ gif_frames[3].disposal_method = 3
    /\ \A k \in 1..3 : DOMAIN frames_out[k] = CanvasCells

=============================================================================
